---- MODULE Spec2Model ----
(***************************************************************************)
(* Blabber: a BNF grammar compiler and sentence generator.                 *)
(*                                                                         *)
(* Text is modelled as sequences of one-character strings, so that the     *)
(* lexer really scans characters.  Five specifications share the variables *)
(* below:                                                                  *)
(*   SpecLex    - lex_line applied to every line over Alphabet             *)
(*   SpecParse  - parse_line applied to every token sequence               *)
(*   SpecVerify - verify_rules applied to every small rule table           *)
(*   Spec       - parse_file on a file, then generate on its Grammar       *)
(*   SpecGen    - generate on Grammar values built directly                *)
(***************************************************************************)
EXTENDS Integers, Sequences, FiniteSets, TLC

VARIABLES
    line,       \* SpecLex: the &str handed to lex_line
    lexed,      \* SpecLex: the Result<Vec<Token>> it returned
    tokens,     \* SpecParse: the &[Token] handed to parse_line
    parsed,     \* SpecParse: the Result<Rule> it returned
    table,      \* SpecVerify: the IntermediateRuleset handed to verify_rules
    verified,   \* SpecVerify: the FileResult<()> it returned
    openOk,     \* Spec: whether File::open succeeds
    file,       \* Spec: what BufReader::lines yields, entry by entry
    parseRes,   \* Spec: the FileResult<Grammar> of parse_file
    grammar,    \* Spec, SpecGen: the Grammar generation runs on
    genCall,    \* the generate call in progress (or the last one)
    genStack,   \* the recursion stack of generate_rewrite frames
    outputs,    \* the GenResult of every finished generate call, in order
    pc          \* where the caller stands

vars == <<line, lexed, tokens, parsed, table, verified, openOk, file,
          parseRes, grammar, genCall, genStack, outputs, pc>>

lexVars    == <<line, lexed>>
parseVars  == <<tokens, parsed>>
verifyVars == <<table, verified>>
fileVars   == <<openOk, file, parseRes>>
genVars    == <<grammar, genCall, genStack, outputs>>

----------------------------------------------------------------------------
(* Bounds *)

MaxLineLen == 5     \* characters in a line given to lex_line (SpecLex)
MaxTokens  == 4     \* tokens in a sequence given to parse_line (SpecParse)
MaxRewrite == 4     \* symbols and `|` separators of a rewrite (SpecVerify)
MaxLines   == 3     \* entries of a file (Spec)
MaxDepth   == 3     \* nested generate_rewrite frames that are followed
MaxRuns    == 2     \* generate calls made on one Grammar

----------------------------------------------------------------------------
(* Result<T, E> *)

\* set tells a returned result from the value a variable holds before the call.
None   == [set |-> FALSE, ok |-> FALSE, val |-> <<>>, err |-> "None"]
Ok(v)  == [set |-> TRUE,  ok |-> TRUE,  val |-> v,    err |-> "None"]
Err(e) == [set |-> TRUE,  ok |-> FALSE, val |-> <<>>, err |-> e]

\* FileResult<T>: the error side is the list of located errors, kept in val.
Errs(list) == [set |-> TRUE, ok |-> FALSE, val |-> list, err |-> "Errors"]

IsErr(r) == r.set /\ ~r.ok

----------------------------------------------------------------------------
(* Characters *)

Quote == "\""

Whitespace == {" "}

is_whitespace(c) == c \in Whitespace

Alphabet == {"a", " ", "=", "|", Quote}

Strings(alphabet, n) == UNION {[1..k -> alphabet] : k \in 0..n}

----------------------------------------------------------------------------
(* parser/lexer.rs *)

Token_Equals         == [type |-> "Equals",      text |-> <<>>]
Token_Or             == [type |-> "Or",          text |-> <<>>]
Token_Nonterminal(s) == [type |-> "Nonterminal", text |-> s]
Token_Terminal(s)    == [type |-> "Terminal",    text |-> s]

\* peeking_take_while / take_while: the first position at or after pos whose
\* character fails the predicate "is not in stop", or Len(l) + 1.
RECURSIVE scan_until(_, _, _)
scan_until(l, pos, stop) ==
    IF pos > Len(l) \/ l[pos] \in stop THEN pos
    ELSE scan_until(l, pos + 1, stop)

\* A mutant of lex_terminal: the text runs to the LAST quote of the line.
RECURSIVE last_quote(_, _)
last_quote(l, pos) ==
    IF pos <= 0 THEN 0
    ELSE IF l[pos] = Quote THEN pos ELSE last_quote(l, pos - 1)

lex_terminal_greedy(l, pos) ==
    LET close == last_quote(l, Len(l)) IN
    IF close <= pos
    THEN [res |-> Err("UnmatchedQuote"), next |-> Len(l) + 1]
    ELSE [res |-> Ok(Token_Terminal(SubSeq(l, pos + 1, close - 1))),
          next |-> close + 1]

\* A mutant of lex_terminal: the quotes are kept in the text.
lex_terminal_keep_quotes(l, pos) ==
    LET close == scan_until(l, pos + 1, {Quote}) IN
    IF close > Len(l)
    THEN [res |-> Err("UnmatchedQuote"), next |-> close]
    ELSE [res |-> Ok(Token_Terminal(SubSeq(l, pos, close))),
          next |-> close + 1]

\* lex_terminal: pos is the opening quote.  Returns the token and the position
\* of the first character left in the iterator.
lex_terminal(l, pos) ==
    LET close == scan_until(l, pos + 1, {Quote}) IN
    IF close > Len(l)
    THEN [res |-> Err("UnmatchedQuote"), next |-> close]
    ELSE [res |-> Ok(Token_Terminal(SubSeq(l, pos + 1, close - 1))),
          next |-> close + 1]

\* lex_nonterminal: take_while consumes the whitespace character that ends the
\* name, too.
lex_nonterminal(l, pos) ==
    LET end == scan_until(l, pos, Whitespace) IN
    [res |-> Ok(Token_Nonterminal(SubSeq(l, pos, end - 1))), next |-> end + 1]

\* The while-let loop of lex_line, from position pos with toks pushed so far.
RECURSIVE lex_loop(_, _, _)
lex_loop(l, pos, toks) ==
    IF pos > Len(l) THEN Ok(toks)
    ELSE LET c == l[pos] IN
         IF c = "=" THEN lex_loop(l, pos + 1, Append(toks, Token_Equals))
         ELSE IF c = "|" THEN lex_loop(l, pos + 1, Append(toks, Token_Or))
         ELSE IF c = Quote THEN
             LET t == lex_terminal(l, pos) IN
             IF t.res.ok THEN lex_loop(l, t.next, Append(toks, t.res.val))
             ELSE Err(t.res.err)
         ELSE IF ~is_whitespace(c) THEN
             LET t == lex_nonterminal(l, pos) IN
             IF t.res.ok THEN lex_loop(l, t.next, Append(toks, t.res.val))
             ELSE Err(t.res.err)
         ELSE lex_loop(l, pos + 1, toks)

lex_line(l) == lex_loop(l, 1, <<>>)

----------------------------------------------------------------------------
(* grammar/mod.rs *)

Symbol_Terminal(s)    == [kind |-> "Terminal",    text |-> s]
Symbol_Nonterminal(s) == [kind |-> "Nonterminal", text |-> s]

----------------------------------------------------------------------------
(* parser/mod.rs: the line parser *)

\* collect::<Result<Vec<_>, _>>(): the values when all are Ok, else the first
\* error in order.
RECURSIVE collect(_)
collect(results) ==
    IF results = <<>> THEN Ok(<<>>)
    ELSE IF ~Head(results).ok THEN Err(Head(results).err)
    ELSE LET rest == collect(Tail(results)) IN
         IF rest.ok THEN Ok(<<Head(results).val>> \o rest.val) ELSE rest

parse_token(t) ==
    CASE t.type = "Equals"      -> Err("UnexpectedEquals")
      [] t.type = "Or"          -> Err("UnsplitRewrite")
      [] t.type = "Nonterminal" -> Ok(Symbol_Nonterminal(t.text))
      [] t.type = "Terminal"    -> Ok(Symbol_Terminal(t.text))

parse_alternative(toks) ==
    collect([i \in 1..Len(toks) |-> parse_token(toks[i])])

\* slice::split: the groups between the Or tokens; always at least one group.
RECURSIVE split_or(_, _)
split_or(toks, group) ==
    IF toks = <<>> THEN <<group>>
    ELSE IF Head(toks) = Token_Or THEN <<group>> \o split_or(Tail(toks), <<>>)
    ELSE split_or(Tail(toks), Append(group, Head(toks)))

\* A mutant of parse_rewrite: the empty groups between Or tokens are dropped.
parse_rewrite_skip_empty(toks) ==
    LET groups == SelectSeq(split_or(toks, <<>>), LAMBDA g : g # <<>>) IN
    collect([i \in 1..Len(groups) |-> parse_alternative(groups[i])])

parse_rewrite(toks) ==
    LET groups == split_or(toks, <<>>) IN
    collect([i \in 1..Len(groups) |-> parse_alternative(groups[i])])

\* A mutant of parse_line: the `=` is looked for before the nonterminal.
parse_line_equals_first(toks, location) ==
    IF Len(toks) = 0 THEN Err("UnexpectedBlankLine")
    ELSE IF Len(toks) < 2 \/ toks[2] # Token_Equals THEN Err("MissingEquals")
    ELSE IF toks[1].type # "Nonterminal" THEN Err("MissingNonterminal")
    ELSE LET rewrite == parse_rewrite(SubSeq(toks, 3, Len(toks))) IN
         IF ~rewrite.ok THEN Err(rewrite.err)
         ELSE Ok([symbol |-> toks[1].text, rewrite |-> rewrite.val,
                  location |-> location])

parse_line(toks, location) ==
    IF Len(toks) = 0 THEN Err("UnexpectedBlankLine")
    ELSE IF toks[1].type # "Nonterminal" THEN Err("MissingNonterminal")
    ELSE IF Len(toks) < 2 \/ toks[2] # Token_Equals THEN Err("MissingEquals")
    ELSE LET rewrite == parse_rewrite(SubSeq(toks, 3, Len(toks))) IN
         IF ~rewrite.ok THEN Err(rewrite.err)
         ELSE Ok([symbol |-> toks[1].text, rewrite |-> rewrite.val,
                  location |-> location])

----------------------------------------------------------------------------
(* Idle values of the variables a specification does not use *)

IdleLex    == line = <<>> /\ lexed = None
IdleParse  == tokens = <<>> /\ parsed = None
IdleVerify == table = <<>> /\ verified = None
IdleFile   == openOk = TRUE /\ file = <<>> /\ parseRes = None
IdleGen    == /\ grammar = [start_symbol |-> <<>>, rules |-> <<>>]
              /\ genCall = [mode |-> "none", start |-> <<>>]
              /\ genStack = <<>>
              /\ outputs = <<>>

----------------------------------------------------------------------------
(* SpecLex: lex_line on every line of at most MaxLineLen characters *)

Lines == Strings(Alphabet, MaxLineLen)

InitLex ==
    /\ line \in Lines
    /\ lexed = None
    /\ IdleParse /\ IdleVerify /\ IdleFile /\ IdleGen
    /\ pc = "lex"

LexLine ==
    /\ pc = "lex"
    /\ lexed' = lex_line(line)
    /\ pc' = "lexed"
    /\ UNCHANGED <<line, parseVars, verifyVars, fileVars, genVars>>

NextLex == LexLine

SpecLex == InitLex /\ [][NextLex]_vars

----------------------------------------------------------------------------
(* SpecParse: parse_line on every sequence of at most MaxTokens tokens *)

NameA == <<"A">>
NameB == <<"B">>
NameC == <<"C">>
TextX == <<"x">>
TextY == <<"y">>

TokenAlphabet ==
    {Token_Equals, Token_Or, Token_Nonterminal(NameA), Token_Terminal(TextX)}

Location0 == [line |-> 0]

InitParse ==
    /\ tokens \in Strings(TokenAlphabet, MaxTokens)
    /\ parsed = None
    /\ IdleLex /\ IdleVerify /\ IdleFile /\ IdleGen
    /\ pc = "parse"

ParseLine ==
    /\ pc = "parse"
    /\ parsed' = parse_line(tokens, Location0)
    /\ pc' = "parsed"
    /\ UNCHANGED <<tokens, lexVars, verifyVars, fileVars, genVars>>

NextParse == ParseLine

SpecParse == InitParse /\ [][NextParse]_vars

----------------------------------------------------------------------------
(* parser/verifier.rs *)

\* A rule table (IntermediateRuleset) is a function from the defined names to
\* [rewrite, location].  HashMap iteration order is unspecified: the order in
\* which the keys are visited is a parameter.

UndefinedNonterminal(name) == [type |-> "UndefinedNonterminal", name |-> name]

CompileError(location, error) == [location |-> location, error |-> error]

RECURSIVE get_alternative_undefined_symbols(_, _, _)
get_alternative_undefined_symbols(alternative, location, rules) ==
    IF alternative = <<>> THEN <<>>
    ELSE LET symbol == Head(alternative)
             rest == get_alternative_undefined_symbols(
                         Tail(alternative), location, rules)
         IN IF symbol.kind = "Nonterminal" /\ symbol.text \notin DOMAIN rules
            THEN <<CompileError(location, UndefinedNonterminal(symbol.text))>>
                     \o rest
            ELSE rest

RECURSIVE get_rewrite_undefined_symbols(_, _, _)
get_rewrite_undefined_symbols(rewrite, location, rules) ==
    IF rewrite = <<>> THEN <<>>
    ELSE get_alternative_undefined_symbols(Head(rewrite), location, rules)
             \o get_rewrite_undefined_symbols(Tail(rewrite), location, rules)

RECURSIVE get_undefined_symbols(_, _)
get_undefined_symbols(rules, order) ==
    IF order = <<>> THEN <<>>
    ELSE LET rule == rules[Head(order)] IN
         get_rewrite_undefined_symbols(rule.rewrite, rule.location, rules)
             \o get_undefined_symbols(rules, Tail(order))

\* A mutant of verify_rules: it stops at the first undefined reference.
verify_rules_first_only(rules, order) ==
    LET errors == get_undefined_symbols(rules, order) IN
    IF Len(errors) > 0 THEN Errs(<<errors[1]>>) ELSE Ok(<<>>)

verify_rules(rules, order) ==
    LET errors == get_undefined_symbols(rules, order) IN
    IF Len(errors) > 0 THEN Errs(errors) ELSE Ok(<<>>)

\* The orders in which a HashMap with these keys may be iterated.
IterationOrders(keys) ==
    {order \in [1..Cardinality(keys) -> keys] :
        \A i, j \in DOMAIN order : i # j => order[i] # order[j]}

----------------------------------------------------------------------------
(* SpecVerify: verify_rules on every rule table over two names *)

VerifySymbols ==
    {Symbol_Nonterminal(NameB), Symbol_Nonterminal(NameC),
     Symbol_Terminal(TextX)}

Separator == [kind |-> "Or", text |-> <<>>]

\* The alternatives written as symbols with separators between them.
RECURSIVE Alternatives(_, _)
Alternatives(items, group) ==
    IF items = <<>> THEN <<group>>
    ELSE IF Head(items) = Separator
         THEN <<group>> \o Alternatives(Tail(items), <<>>)
    ELSE Alternatives(Tail(items), Append(group, Head(items)))

\* Every rewrite of at least one alternative that takes at most MaxRewrite
\* symbols and separators to write, and the rewrite without alternatives.
VerifyRewrites ==
    {<<>>} \cup {Alternatives(items, <<>>) :
                    items \in Strings(VerifySymbols \cup {Separator}, MaxRewrite)}

\* The rule of B, when B is defined.
RewritesOfB ==
    { << <<Symbol_Terminal(TextY)>> >>,
      << <<Symbol_Nonterminal(NameC), Symbol_Nonterminal(NameB)>>, <<>> >> }

RuleTables ==
    {<<>>}
    \cup {(NameA :> [rewrite |-> ra, location |-> [line |-> 1]]) :
             ra \in VerifyRewrites}
    \cup {(NameA :> [rewrite |-> ra, location |-> [line |-> 1]])
            @@ (NameB :> [rewrite |-> rb, location |-> [line |-> 2]]) :
             ra \in VerifyRewrites, rb \in RewritesOfB}

InitVerify ==
    /\ table \in RuleTables
    /\ verified = None
    /\ IdleLex /\ IdleParse /\ IdleFile /\ IdleGen
    /\ pc = "verify"

VerifyRules ==
    /\ pc = "verify"
    /\ \E order \in IterationOrders(DOMAIN table) :
           verified' = verify_rules(table, order)
    /\ pc' = "verified"
    /\ UNCHANGED <<table, lexVars, parseVars, fileVars, genVars>>

NextVerify == VerifyRules

SpecVerify == InitVerify /\ [][NextVerify]_vars

----------------------------------------------------------------------------
(* parser/mod.rs: the file driver *)

\* What BufReader::lines yields for one line of the file: its text, or a read
\* error (a line that is not valid UTF-8 gives Err(InvalidData) and the next
\* call goes on with the next line).
LineText(text) == [ok |-> TRUE,  text |-> text]
ReadFailure    == [ok |-> FALSE, text |-> <<>>]

io_error == CompileError([line |-> 0], "FileError")

parse_lex_line(l, location) ==
    LET lexed_line == lex_line(l) IN
    IF ~lexed_line.ok THEN Err(CompileError(location, lexed_line.err))
    ELSE LET rule == parse_line(lexed_line.val, location) IN
         IF rule.ok THEN rule ELSE Err(CompileError(location, rule.err))

is_rule_line(l) == Len(l) > 0 /\ l[1] # ";"

\* Iterator::filter on a sequence of [num, res] items.
RECURSIVE filter_lines(_)
filter_lines(items) ==
    IF items = <<>> THEN <<>>
    ELSE LET item == Head(items) IN
         (IF (item.res.ok /\ is_rule_line(item.res.val)) \/ ~item.res.ok
          THEN <<item>> ELSE <<>>) \o filter_lines(Tail(items))

\* file_line_nums: lines() . map(io_error) . enumerate() . filter() . map(+1)
file_line_nums(f) ==
    LET mapped == [i \in 1..Len(f) |->
                      IF f[i].ok THEN Ok(f[i].text) ELSE Err(io_error)]
        enumerated == [i \in 1..Len(f) |-> [num |-> i - 1, res |-> mapped[i]]]
        kept == filter_lines(enumerated)
    IN [i \in 1..Len(kept) |-> [num |-> kept[i].num + 1, res |-> kept[i].res]]

\* HashMap::insert
insert(map, key, value) ==
    [k \in DOMAIN map \cup {key} |-> IF k = key THEN value ELSE map[k]]

RECURSIVE insert_rules(_, _)
insert_rules(map, value) ==
    IF value = <<>> THEN map
    ELSE LET rule == Head(value) IN
         insert_rules(insert(map, rule.symbol,
                             [rewrite |-> rule.rewrite,
                              location |-> rule.location]),
                      Tail(value))

\* A mutant of Grammar_from: the start symbol is taken from the last rule.
Grammar_from_last(value) ==
    [start_symbol |-> IF Len(value) > 0 THEN value[Len(value)].symbol ELSE <<>>,
     rules |-> insert_rules(<<>>, value)]

\* impl From<Vec<Rule>> for Grammar
Grammar_from(value) ==
    [start_symbol |-> IF Len(value) > 0 THEN value[1].symbol ELSE <<>>,
     rules |-> insert_rules(<<>>, value)]

\* Iterator::partition, one side at a time.
RECURSIVE partition(_, _)
partition(results, wantOk) ==
    IF results = <<>> THEN <<>>
    ELSE (IF Head(results).ok = wantOk THEN <<Head(results)>> ELSE <<>>)
             \o partition(Tail(results), wantOk)

\* A mutant of parse_file: only the first per-line error is returned.
parse_file_first_error(open, f) ==
    IF ~open THEN Errs(<<io_error>>)
    ELSE LET lines == file_line_nums(f)
             parsed_lines == [i \in 1..Len(lines) |->
                 IF lines[i].res.ok
                 THEN parse_lex_line(lines[i].res.val, [line |-> lines[i].num])
                 ELSE lines[i].res]
             rules == partition(parsed_lines, TRUE)
             errors == partition(parsed_lines, FALSE)
         IN IF Len(errors) > 0 THEN Errs(<<errors[1].err>>)
            ELSE Ok(Grammar_from([i \in 1..Len(rules) |-> rules[i].val]))

parse_file(open, f) ==
    IF ~open THEN Errs(<<io_error>>)
    ELSE LET lines == file_line_nums(f)
             parsed_lines == [i \in 1..Len(lines) |->
                 IF lines[i].res.ok
                 THEN parse_lex_line(lines[i].res.val, [line |-> lines[i].num])
                 ELSE lines[i].res]
             rules == partition(parsed_lines, TRUE)
             errors == partition(parsed_lines, FALSE)
         IN IF Len(errors) > 0
            THEN Errs([i \in 1..Len(errors) |-> errors[i].err])
            ELSE Ok(Grammar_from([i \in 1..Len(rules) |-> rules[i].val]))

----------------------------------------------------------------------------
(* generator/mod.rs *)

GenerateError(location, error) == [location |-> location, error |-> error]

\* generate_nonterminal's lookup: the rule of the nonterminal, or the error.
generate_nonterminal(nonterminal, rules, location) ==
    IF nonterminal \in DOMAIN rules THEN Ok(rules[nonterminal])
    ELSE Err(GenerateError(location, UndefinedNonterminal(nonterminal)))

\* rewrite.choose(&mut thread_rng()): any alternative; None, taken as the
\* empty alternative, when there is none.
choose(rewrite) ==
    IF Len(rewrite) = 0 THEN {<<>>}
    ELSE {rewrite[i] : i \in 1..Len(rewrite)}

\* A generate call has returned res.
Return(call, res) ==
    /\ outputs' = Append(outputs, [call |-> call, res |-> res])
    /\ genStack' = <<>>
    /\ pc' = "ready"

\* A mutant of Call: a bounded-depth guard turns recursion beyond MaxDepth into
\* a reported error.
Call_depth_guard(call, nonterminal, location, stack) ==
    LET rule == generate_nonterminal(nonterminal, grammar.rules, location) IN
    IF ~rule.ok THEN Return(call, rule)
    ELSE IF Len(stack) >= MaxDepth
    THEN Return(call, Err(GenerateError(location,
                              [type |-> "RecursionLimit", name |-> nonterminal])))
    ELSE /\ \E alternative \in choose(rule.val.rewrite) :
                genStack' = Append(stack, [rest |-> alternative,
                                           result |-> <<>>,
                                           location |-> rule.val.location])
         /\ pc' = "gen"
         /\ UNCHANGED outputs

\* generate_nonterminal(nonterminal, rules, location) called under stack: an
\* undefined name is an error that `?` carries through every frame; else
\* generate_rewrite picks an alternative and starts on it.
Call(call, nonterminal, location, stack) ==
    LET rule == generate_nonterminal(nonterminal, grammar.rules, location) IN
    IF ~rule.ok THEN Return(call, rule)
    ELSE /\ Len(stack) < MaxDepth
         /\ \E alternative \in choose(rule.val.rewrite) :
                genStack' = Append(stack, [rest |-> alternative,
                                           result |-> <<>>,
                                           location |-> rule.val.location])
         /\ pc' = "gen"
         /\ UNCHANGED outputs

generate ==
    /\ pc = "ready"
    /\ Len(outputs) < MaxRuns
    /\ genCall' = [mode |-> "default", start |-> grammar.start_symbol]
    /\ Call(genCall', grammar.start_symbol, Location0, <<>>)
    /\ UNCHANGED <<grammar, lexVars, parseVars, verifyVars, fileVars>>

OverrideSymbols == {NameB}

generate_with_override ==
    /\ pc = "ready"
    /\ Len(outputs) < MaxRuns
    /\ \E start \in OverrideSymbols :
           /\ genCall' = [mode |-> "override", start |-> start]
           /\ Call(genCall', start, Location0, <<>>)
    /\ UNCHANGED <<grammar, lexVars, parseVars, verifyVars, fileVars>>

\* The body of the for loop of generate_rewrite, on the next token of the
\* alternative: generate_symbol and push_str.
generate_symbol ==
    /\ pc = "gen"
    /\ LET top == genStack[Len(genStack)] IN
       /\ top.rest # <<>>
       /\ LET symbol == Head(top.rest) IN
          IF symbol.kind = "Terminal"
          THEN /\ genStack' = [genStack EXCEPT ![Len(genStack)] =
                                  [top EXCEPT !.rest = Tail(top.rest),
                                              !.result = top.result \o symbol.text]]
               /\ UNCHANGED <<outputs, pc>>
          ELSE Call(genCall, symbol.text, top.location, genStack)
    /\ UNCHANGED <<grammar, genCall, lexVars, parseVars, verifyVars, fileVars>>

\* A mutant of generate_rewrite: the caller's result is overwritten by the
\* returned string instead of being extended by it.
generate_rewrite_overwrite ==
    /\ pc = "gen"
    /\ LET depth == Len(genStack)
           top == genStack[depth]
       IN /\ top.rest = <<>>
          /\ IF depth = 1 THEN Return(genCall, Ok(top.result))
             ELSE LET caller == genStack[depth - 1] IN
                  /\ genStack' = [SubSeq(genStack, 1, depth - 1)
                                     EXCEPT ![depth - 1] =
                                  [caller EXCEPT !.rest = Tail(caller.rest),
                                                 !.result = top.result]]
                  /\ UNCHANGED <<outputs, pc>>
    /\ UNCHANGED <<grammar, genCall, lexVars, parseVars, verifyVars, fileVars>>

\* generate_rewrite returns Ok(result): to the generate_symbol that called it,
\* or to the caller of generate.
generate_rewrite ==
    /\ pc = "gen"
    /\ LET depth == Len(genStack)
           top == genStack[depth]
       IN /\ top.rest = <<>>
          /\ IF depth = 1 THEN Return(genCall, Ok(top.result))
             ELSE LET caller == genStack[depth - 1] IN
                  /\ genStack' = [SubSeq(genStack, 1, depth - 1)
                                     EXCEPT ![depth - 1] =
                                  [caller EXCEPT !.rest = Tail(caller.rest),
                                                 !.result = caller.result \o top.result]]
                  /\ UNCHANGED <<outputs, pc>>
    /\ UNCHANGED <<grammar, genCall, lexVars, parseVars, verifyVars, fileVars>>

----------------------------------------------------------------------------
(* Spec: parse_file on a file of at most MaxLines entries, then generation *)

FileLines ==
    { <<"A", " ", "=", " ", Quote, "x", Quote, " ", "B">>,  \* A = "x" B
      <<"B", " ", "=", " ", Quote, "y", Quote, " ", "|", " ", "A">>,
                                                          \* B = "y" | A
      <<"A", " ", "=", " ", Quote, "y", Quote>>,            \* A = "y"
      <<" ", ";", "a", " ", "=", Quote, Quote>>,            \*  ;a =""
      <<";", "c">>,                                         \* ;c
      <<>>,                                                 \* (empty)
      <<" ">>,                                              \* (one space)
      <<"=", " ", "A">>,                                    \* = A
      <<"A", " ", "=", " ", "=">>,                          \* A = =
      <<"A", " ", Quote>> }                                 \* A "

FileEntries == {LineText(l) : l \in FileLines} \cup {ReadFailure}

Init ==
    /\ openOk \in BOOLEAN
    /\ file \in Strings(FileEntries, MaxLines)
    /\ ~openOk => file = <<>>
    /\ parseRes = None
    /\ IdleLex /\ IdleParse /\ IdleVerify /\ IdleGen
    /\ pc = "start"

\* main: parse_file; on Err the errors are printed and the process exits.
ParseFile ==
    /\ pc = "start"
    /\ parseRes' = parse_file(openOk, file)
    /\ IF parseRes'.ok
       THEN grammar' = parseRes'.val /\ pc' = "ready"
       ELSE UNCHANGED grammar /\ pc' = "exit"
    /\ UNCHANGED <<openOk, file, genCall, genStack, outputs,
                   lexVars, parseVars, verifyVars>>

Next ==
    \/ ParseFile
    \/ generate
    \/ generate_with_override
    \/ generate_symbol
    \/ generate_rewrite

Spec == Init /\ [][Next]_vars

----------------------------------------------------------------------------
(* SpecGen: generate on Grammar values built directly (the fields of Grammar *)
(* are public), so that rewrites without alternatives are covered too        *)

GenRewrites ==
    { <<>>,
      << <<>> >>,
      << <<Symbol_Terminal(TextX)>> >>,
      << <<Symbol_Terminal(TextX), Symbol_Nonterminal(NameB),
           Symbol_Terminal(TextY)>> >>,
      << <<Symbol_Nonterminal(NameA)>>, <<Symbol_Terminal(TextY)>> >>,
      << <<Symbol_Nonterminal(NameB)>>, <<Symbol_Terminal(TextY)>> >>,
      << <<Symbol_Nonterminal(NameB)>> >> }

GenGrammars ==
    {[start_symbol |-> <<>>, rules |-> <<>>]}
    \cup
    {[start_symbol |-> NameA,
      rules |-> (NameA :> [rewrite |-> ra, location |-> [line |-> 1]])] :
         ra \in GenRewrites}
    \cup
    {[start_symbol |-> NameA,
      rules |-> (NameA :> [rewrite |-> ra, location |-> [line |-> 1]])
                  @@ (NameB :> [rewrite |-> rb, location |-> [line |-> 2]])] :
         ra \in GenRewrites, rb \in GenRewrites}

InitGen ==
    /\ grammar \in GenGrammars
    /\ genCall = [mode |-> "none", start |-> <<>>]
    /\ genStack = <<>>
    /\ outputs = <<>>
    /\ IdleLex /\ IdleParse /\ IdleVerify /\ IdleFile
    /\ pc = "ready"

NextGen ==
    \/ generate
    \/ generate_with_override
    \/ generate_symbol
    \/ generate_rewrite

SpecGen == InitGen /\ [][NextGen]_vars

\* A call in progress runs on: the recursion is plain sequential code with no
\* suspension point, so a step of it that can be taken is taken.
SpecGenFair ==
    SpecGen /\ WF_vars(generate_symbol) /\ WF_vars(generate_rewrite)

----------------------------------------------------------------------------
(* The five lexing rules, stated on segmentations of the line.             *)
(* A segmentation of the first m characters is the set of positions where  *)
(* a segment starts; each segment must be one of the five shapes.          *)

SegEnd(starts, s, m) ==
    LET later == {t \in starts : t > s} IN
    IF later = {} THEN m
    ELSE (CHOOSE t \in later : \A u \in later : t <= u) - 1

SegKind(l, s, e) ==
    IF e = s /\ l[s] = "=" THEN "Equals"
    ELSE IF e = s /\ l[s] = "|" THEN "Or"
    ELSE IF e = s /\ is_whitespace(l[s]) THEN "Space"
    ELSE IF /\ l[s] = Quote
            /\ e > s
            /\ l[e] = Quote
            /\ \A k \in (s + 1)..(e - 1) : l[k] # Quote THEN "Terminal"
    ELSE IF /\ l[s] \notin {"=", "|", Quote}
            /\ \A k \in s..e : ~is_whitespace(l[k])
            /\ (e = Len(l) \/ is_whitespace(l[e + 1])) THEN "Nonterminal"
    ELSE "Invalid"

ValidSegmentation(l, starts, m) ==
    /\ (m >= 1 => 1 \in starts)
    /\ \A s \in starts : SegKind(l, s, SegEnd(starts, s, m)) # "Invalid"

SegToken(l, s, e) ==
    LET kind == SegKind(l, s, e) IN
    CASE kind = "Equals"      -> <<Token_Equals>>
      [] kind = "Or"          -> <<Token_Or>>
      [] kind = "Terminal"    -> <<Token_Terminal(SubSeq(l, s + 1, e - 1))>>
      [] kind = "Nonterminal" -> <<Token_Nonterminal(SubSeq(l, s, e))>>
      [] OTHER                -> <<>>

RECURSIVE SegTokens(_, _, _, _)
SegTokens(l, starts, m, pos) ==
    IF pos > m THEN <<>>
    ELSE (IF pos \in starts THEN SegToken(l, pos, SegEnd(starts, pos, m))
          ELSE <<>>) \o SegTokens(l, starts, m, pos + 1)

\* Some terminal's opening quote (a quote at a token start) has no closing
\* quote later on the line.
HasUnmatchedQuote(l) ==
    \E p \in 1..Len(l) :
        /\ l[p] = Quote
        /\ \A k \in (p + 1)..Len(l) : l[k] # Quote
        /\ \E starts \in SUBSET (1..(p - 1)) :
               ValidSegmentation(l, starts, p - 1)

\* C6: lex_line returns Err(UnmatchedQuote), with no tokens, exactly when a
\* terminal's opening quote has no closing quote later on the line; otherwise
\* it returns the tokens of the segmentation of the whole line by the five
\* lexing rules (`=`, `|`, quoted terminal, nonterminal up to whitespace or
\* end of line, whitespace skipped), in order.
C6_LexLineRules ==
    pc = "lexed" =>
        /\ IsErr(lexed) <=> HasUnmatchedQuote(line)
        /\ IsErr(lexed) => lexed.err = "UnmatchedQuote" /\ lexed.val = <<>>
        /\ lexed.ok =>
               \E starts \in SUBSET (1..Len(line)) :
                   /\ ValidSegmentation(line, starts, Len(line))
                   /\ lexed.val = SegTokens(line, starts, Len(line), 1)

\* Two tokens had been lexed (a and =) when the unmatched quote was met.
C6_Witness ==
    /\ pc = "lexed"
    /\ IsErr(lexed)
    /\ Len(line) = 4
    /\ line[1] = "a" /\ line[2] = " " /\ line[3] = "=" /\ line[4] = Quote

\* C7: parse_line reports exactly one error by fixed precedence: no token
\* gives UnexpectedBlankLine; else a first token that is no Nonterminal gives
\* MissingNonterminal; else a second token absent or not Equals gives
\* MissingEquals; else an Equals from index 2 on gives UnexpectedEquals; else
\* the result is Ok.
C7_ParseLinePrecedence ==
    pc = "parsed" =>
        LET n == Len(tokens) IN
        IF n = 0 THEN IsErr(parsed) /\ parsed.err = "UnexpectedBlankLine"
        ELSE IF tokens[1].type # "Nonterminal"
             THEN IsErr(parsed) /\ parsed.err = "MissingNonterminal"
        ELSE IF n < 2 \/ tokens[2].type # "Equals"
             THEN IsErr(parsed) /\ parsed.err = "MissingEquals"
        ELSE IF \E i \in 3..n : tokens[i].type = "Equals"
             THEN IsErr(parsed) /\ parsed.err = "UnexpectedEquals"
        ELSE parsed.ok

\* Three conditions apply at once (first token a Terminal, second not Equals,
\* an Equals further on) and the earliest one is reported.
C7_Witness ==
    /\ pc = "parsed"
    /\ Len(tokens) >= 3
    /\ tokens[1].type = "Terminal"
    /\ tokens[2].type # "Equals"
    /\ tokens[3].type = "Equals"
    /\ IsErr(parsed)
    /\ parsed.err = "MissingNonterminal"

\* The occurrences of undefined nonterminals in a table: <<key, alternative
\* index, symbol index>>.
UndefinedOccurrences(rules) ==
    {o \in UNION {UNION {{<<k, i, j>> : j \in 1..Len(rules[k].rewrite[i])} :
                             i \in 1..Len(rules[k].rewrite)} :
                      k \in DOMAIN rules} :
        LET symbol == rules[o[1]].rewrite[o[2]][o[3]] IN
        symbol.kind = "Nonterminal" /\ symbol.text \notin DOMAIN rules}

OccurrenceError(rules, o) ==
    CompileError(rules[o[1]].location,
                 UndefinedNonterminal(rules[o[1]].rewrite[o[2]][o[3]].text))

\* C3: verify_rules returns one UndefinedNonterminal(name) error for each
\* occurrence of a Nonterminal whose name is no key of the table, located at
\* the rule that holds the occurrence, and nothing else; it returns Ok(())
\* exactly when there is no such occurrence.
C3_VerifyReportsExactly ==
    pc = "verified" =>
        LET occ == UndefinedOccurrences(table)
            errors == verified.val
            expected == {OccurrenceError(table, o) : o \in occ}
            reported == {errors[n] : n \in 1..Len(errors)}
        IN /\ verified.ok <=> occ = {}
           /\ verified.ok => errors = <<>>
           /\ IsErr(verified) => verified.err = "Errors"
           /\ reported = expected
           /\ \A e \in expected :
                  Cardinality({n \in 1..Len(errors) : errors[n] = e})
                      = Cardinality({o \in occ : OccurrenceError(table, o) = e})

\* A table with two rules, both holding undefined references, one of them
\* twice the same name, next to a Terminal.
C3_Witness ==
    /\ pc = "verified"
    /\ IsErr(verified)
    /\ DOMAIN table = {NameA, NameB}
    /\ table[NameA].rewrite = << <<Symbol_Nonterminal(NameC), Symbol_Terminal(TextX)>>,
                                 <<Symbol_Nonterminal(NameC)>> >>
    /\ Len(verified.val) = 3
    /\ verified.val[1].location.line = 2

----------------------------------------------------------------------------
(* Claims about parse_file *)

\* parse_file has just returned: file and parseRes do not change afterwards.
ParseFileReturned == pc \in {"ready", "exit"} /\ genCall.mode = "none"

\* A line the skip rule removes: empty, or starting with `;`.
Skipped(l) == Len(l) = 0 \/ l[1] = ";"

\* The lines that are read, not skipped, and fail to lex or to parse.
FailingLines ==
    {i \in 1..Len(file) :
        /\ file[i].ok
        /\ ~Skipped(file[i].text)
        /\ ~parse_lex_line(file[i].text, [line |-> i]).ok}

RECURSIVE WithoutFileErrors(_)
WithoutFileErrors(errors) ==
    IF errors = <<>> THEN <<>>
    ELSE (IF Head(errors).error = "FileError" THEN <<>> ELSE <<Head(errors)>>)
             \o WithoutFileErrors(Tail(errors))

\* C1: when some line that is not skipped fails to lex or parse, parse_file
\* returns Err and no Grammar, and the lexer and parser errors of the list are
\* exactly one per failing line, in file order, each at the 1-based physical
\* number of its line; when no line fails, the list holds no such error.
C1_AllErrorsCollected ==
    (ParseFileReturned /\ openOk) =>
        LET perLine == WithoutFileErrors(IF parseRes.ok THEN <<>> ELSE parseRes.val)
        IN /\ FailingLines # {} =>
                  IsErr(parseRes) /\ pc = "exit" /\ grammar.rules = <<>>
           /\ Len(perLine) = Cardinality(FailingLines)
           /\ \A n \in 1..Len(perLine) :
                  /\ perLine[n].location.line \in FailingLines
                  /\ perLine[n].error =
                         parse_lex_line(file[perLine[n].location.line].text,
                                        Location0).err.error
           /\ \A m, n \in 1..Len(perLine) :
                  m < n => perLine[m].location.line < perLine[n].location.line

\* Two failing lines after a comment line: both errors, numbered 2 and 3.
C1_Witness ==
    /\ ParseFileReturned
    /\ pc = "exit"
    /\ Len(file) = 3
    /\ file[1] = LineText(<<";", "c">>)
    /\ parseRes.val = <<CompileError([line |-> 2], "MissingNonterminal"),
                        CompileError([line |-> 3], "UnexpectedEquals")>>

\* The verification invariant of a Grammar.
Verified(g) ==
    \A k \in DOMAIN g.rules :
        \A i \in 1..Len(g.rules[k].rewrite) :
            \A j \in 1..Len(g.rules[k].rewrite[i]) :
                LET symbol == g.rules[k].rewrite[i][j] IN
                symbol.kind = "Nonterminal" => symbol.text \in DOMAIN g.rules

\* C2: every Grammar parse_file returns satisfies the verification invariant:
\* each Nonterminal in any alternative of any rewrite is a key of the rules.
C2_ReturnedGrammarVerified ==
    (ParseFileReturned /\ parseRes.ok) => Verified(parseRes.val)

\* C4: generate with the default start symbol never returns
\* UndefinedNonterminal on a Grammar parse_file returned; the error comes only
\* from generate_with_override with a start symbol that is no key.
C4_UndefinedOnlyByOverride ==
    \A n \in 1..Len(outputs) :
        IsErr(outputs[n].res) =>
            /\ outputs[n].call.mode = "override"
            /\ outputs[n].call.start \notin DOMAIN grammar.rules

\* The first whitespace-delimited word of a line.
FirstWord(l) ==
    LET s == CHOOSE s \in 1..Len(l) :
                 /\ ~is_whitespace(l[s])
                 /\ \A k \in 1..(s - 1) : is_whitespace(l[k])
        e == CHOOSE e \in s..Len(l) :
                 /\ \A k \in s..e : ~is_whitespace(l[k])
                 /\ (e = Len(l) \/ is_whitespace(l[e + 1]))
    IN SubSeq(l, s, e)

RuleLines == {i \in 1..Len(file) : file[i].ok /\ ~Skipped(file[i].text)}

\* C5: the start symbol of the Grammar is the symbol of the first rule line of
\* the file, whatever later lines define or redefine, and the empty string
\* when the file has no rule line.
C5_StartSymbolIsFirstRule ==
    (ParseFileReturned /\ parseRes.ok) =>
        IF RuleLines = {} THEN parseRes.val.start_symbol = <<>>
        ELSE LET first == CHOOSE i \in RuleLines : \A j \in RuleLines : i <= j
             IN parseRes.val.start_symbol = FirstWord(file[first].text)

\* Three rule lines: A, then B, then A again; the start symbol is A and the
\* rule kept for A is the one of line 3.
C5_Witness ==
    /\ ParseFileReturned
    /\ parseRes.ok
    /\ Len(file) = 3
    /\ RuleLines = {1, 2, 3}
    /\ FirstWord(file[2].text) = NameB
    /\ FirstWord(file[3].text) = NameA
    /\ parseRes.val.start_symbol = NameA
    /\ parseRes.val.rules[NameA].location.line = 3

\* C9: a read failure on line i is reported as a located error at line i, and
\* the scan goes on; an open failure is the single error at line 0.
C9_ReadFailureLocated ==
    ParseFileReturned =>
        /\ ~openOk => parseRes.val = <<CompileError([line |-> 0], "FileError")>>
        /\ openOk =>
               \A i \in 1..Len(file) :
                   ~file[i].ok =>
                       /\ IsErr(parseRes)
                       /\ \E n \in 1..Len(parseRes.val) :
                              parseRes.val[n] =
                                  CompileError([line |-> i], "FileError")

----------------------------------------------------------------------------
(* Round trip: a Grammar written back as text and parsed again *)

Space == <<" ">>

SerializeSymbol(symbol) ==
    IF symbol.kind = "Terminal" THEN <<Quote>> \o symbol.text \o <<Quote>>
    ELSE symbol.text

RECURSIVE Join(_, _)
Join(texts, separator) ==
    IF texts = <<>> THEN <<>>
    ELSE IF Len(texts) = 1 THEN texts[1]
    ELSE texts[1] \o separator \o Join(Tail(texts), separator)

SerializeAlternative(alternative) ==
    Join([j \in 1..Len(alternative) |-> SerializeSymbol(alternative[j])], Space)

\* Alternatives are joined by `|` set off by spaces: a bare `|` after a
\* nonterminal would be lexed as part of its name.
SerializeRule(name, rewrite) ==
    name \o <<" ", "=", " ">>
         \o Join([i \in 1..Len(rewrite) |-> SerializeAlternative(rewrite[i])],
                 <<" ", "|", " ">>)

\* The keys in the order of the lines that define them.
RECURSIVE KeysByLine(_, _)
KeysByLine(rules, keys) ==
    IF keys = {} THEN <<>>
    ELSE LET k == CHOOSE k \in keys :
                      \A o \in keys :
                          rules[k].location.line <= rules[o].location.line
         IN <<k>> \o KeysByLine(rules, keys \ {k})

\* One line per rule, the rule of the start symbol first.
Serialize(g) ==
    LET keys == DOMAIN g.rules
        order == IF g.start_symbol \in keys
                 THEN <<g.start_symbol>>
                          \o KeysByLine(g.rules, keys \ {g.start_symbol})
                 ELSE KeysByLine(g.rules, keys)
    IN [n \in 1..Len(order) |->
           LineText(SerializeRule(order[n], g.rules[order[n]].rewrite))]

SameGrammar(g, h) ==
    /\ g.start_symbol = h.start_symbol
    /\ DOMAIN g.rules = DOMAIN h.rules
    /\ \A k \in DOMAIN g.rules : g.rules[k].rewrite = h.rules[k].rewrite

RoundTrips(g) ==
    LET again == parse_file(TRUE, Serialize(g)) IN
    again.ok /\ SameGrammar(g, again.val)

\* C10: for every file parse_file accepts, writing each rule of the Grammar
\* back as a `name = ...` line and parsing that text yields a Grammar with the
\* same start symbol and the same rewrites.
C10_RoundTrip ==
    (ParseFileReturned /\ parseRes.ok) => RoundTrips(parseRes.val)

\* C10 as amended: the same, for the accepted files none of whose rules has a
\* symbol that begins with `;`.
C10_RoundTripNoSemicolonName ==
    (/\ ParseFileReturned
     /\ parseRes.ok
     /\ \A k \in DOMAIN parseRes.val.rules : k[1] # ";")
        => RoundTrips(parseRes.val)

\* A Grammar of two rules, one of them defined twice, with a terminal, a
\* nonterminal and two alternatives, that round-trips.
C10_Witness ==
    /\ ParseFileReturned
    /\ parseRes.ok
    /\ Len(file) = 3
    /\ DOMAIN parseRes.val.rules = {NameA, NameB}
    /\ parseRes.val.rules[NameA].location.line = 3
    /\ Len(parseRes.val.rules[NameB].rewrite) = 2
    /\ RoundTrips(parseRes.val)

----------------------------------------------------------------------------
(* Claims about generate *)

\* The strings a nonterminal derives within d nested rewrites: one alternative
\* of its rewrite, each symbol expanded in order, a Terminal to its text and
\* a Nonterminal to a derivation of its own; a rewrite without alternatives
\* and an empty alternative derive the empty string.
RECURSIVE Derivations(_, _, _), AlternativeDerivations(_, _, _)
Derivations(rules, nonterminal, d) ==
    IF d = 0 \/ nonterminal \notin DOMAIN rules THEN {}
    ELSE LET rewrite == rules[nonterminal].rewrite IN
         IF Len(rewrite) = 0 THEN {<<>>}
         ELSE UNION {AlternativeDerivations(rules, rewrite[i], d) :
                         i \in 1..Len(rewrite)}

AlternativeDerivations(rules, alternative, d) ==
    IF alternative = <<>> THEN {<<>>}
    ELSE LET symbol == Head(alternative)
             heads == IF symbol.kind = "Terminal" THEN {symbol.text}
                      ELSE Derivations(rules, symbol.text, d - 1)
         IN {h \o t : h \in heads,
                      t \in AlternativeDerivations(rules, Tail(alternative), d)}

\* The nonterminals referenced by the rules of the names in from.
Referenced(rules, from) ==
    {symbol.text : symbol \in
        {s \in UNION {UNION {{rules[k].rewrite[i][j] :
                                  j \in 1..Len(rules[k].rewrite[i])} :
                                 i \in 1..Len(rules[k].rewrite)} :
                          k \in from \cap DOMAIN rules} :
            s.kind = "Nonterminal"}}

RECURSIVE Reachable(_, _)
Reachable(rules, from) ==
    LET more == from \cup Referenced(rules, from) IN
    IF more = from THEN from ELSE Reachable(rules, more)

\* Every rewrite reachable from start exists and has exactly one alternative.
SingleAlternative(rules, start) ==
    \A k \in Reachable(rules, {start}) :
        k \in DOMAIN rules /\ Len(rules[k].rewrite) = 1

\* C8: every string generate returns is a derivation of the grammar from the
\* start symbol of the call; an error is returned only for a name that has no
\* rule, never for a rewrite without alternatives or an empty alternative;
\* and when every rewrite reachable from the start symbol has exactly one
\* alternative, every call returns the same string.
C8_GenerateDerives ==
    /\ \A n \in 1..Len(outputs) :
           LET out == outputs[n] IN
           /\ out.res.ok =>
                  out.res.val \in Derivations(grammar.rules, out.call.start, MaxDepth)
           /\ IsErr(out.res) =>
                  out.res.err.error.name \notin DOMAIN grammar.rules
    /\ \A m, n \in 1..Len(outputs) :
           (/\ outputs[m].call.start = outputs[n].call.start
            /\ SingleAlternative(grammar.rules, outputs[m].call.start))
               => outputs[m].res = outputs[n].res

\* A = "x" B "y" with B a rewrite without alternatives: two calls, both "xy".
C8_Witness ==
    /\ Len(outputs) = 2
    /\ NameA \in DOMAIN grammar.rules
    /\ grammar.rules[NameA].rewrite =
           << <<Symbol_Terminal(TextX), Symbol_Nonterminal(NameB),
                Symbol_Terminal(TextY)>> >>
    /\ NameB \in DOMAIN grammar.rules
    /\ grammar.rules[NameB].rewrite = <<>>
    /\ outputs[1].call.mode = "default"
    /\ outputs[2].call.mode = "default"
    /\ outputs[1].res.ok
    /\ outputs[1].res.val = <<"x", "y">>
    /\ outputs[2].res = outputs[1].res

----------------------------------------------------------------------------
(* The alternatives of an accepted line, stated on the positions of the Or *)
(* tokens after the `=`.                                                   *)

\* Positions of the Or tokens after the nonterminal and the `=`.
OrPositions(toks) == {i \in 3..Len(toks) : toks[i].type = "Or"}

\* The position of the k-th Or token.
NthOr(toks, k) ==
    CHOOSE i \in OrPositions(toks) :
        Cardinality({j \in OrPositions(toks) : j <= i}) = k

GroupStart(toks, k) == IF k = 1 THEN 3 ELSE NthOr(toks, k - 1) + 1

GroupEnd(toks, k) ==
    IF k = Cardinality(OrPositions(toks)) + 1 THEN Len(toks)
    ELSE NthOr(toks, k) - 1

SymbolOf(t) ==
    IF t.type = "Nonterminal" THEN Symbol_Nonterminal(t.text)
    ELSE Symbol_Terminal(t.text)

\* The k-th Or-delimited group of tokens, mapped in order to symbols.
GroupSymbols(toks, k) ==
    LET start == GroupStart(toks, k) IN
    [j \in 1..(GroupEnd(toks, k) - start + 1) |-> SymbolOf(toks[start + j - 1])]

\* C11: an accepted token sequence gives a rewrite of exactly (number of Or
\* tokens after the `=`) + 1 alternatives, hence never an empty rewrite; the
\* i-th alternative is the i-th Or-delimited group mapped in order, an empty
\* group giving an empty alternative; no token sequence gives UnsplitRewrite.
C11_AlternativesAreOrGroups ==
    pc = "parsed" =>
        /\ IsErr(parsed) => parsed.err # "UnsplitRewrite"
        /\ parsed.ok =>
              LET rewrite == parsed.val.rewrite
                  count == Cardinality(OrPositions(tokens)) + 1 IN
              /\ Len(rewrite) = count
              /\ Len(rewrite) >= 1
              /\ \A k \in 1..count : rewrite[k] = GroupSymbols(tokens, k)

\* `A = | "x"`: one Or token, two alternatives, the first of them empty.
C11_Witness ==
    /\ pc = "parsed"
    /\ tokens = <<Token_Nonterminal(NameA), Token_Equals, Token_Or,
                  Token_Terminal(TextX)>>
    /\ parsed.ok
    /\ parsed.val.rewrite = << <<>>, <<Symbol_Terminal(TextX)>> >>

----------------------------------------------------------------------------
(* Blank lines and the line parser *)

\* C12: for no file content does parse_file return an UnexpectedBlankLine
\* error: the skip rule removes the blank lines before the line parser runs,
\* so every line that reaches parse_line has at least one token.
C12_NoUnexpectedBlankLine ==
    ParseFileReturned =>
        /\ IsErr(parseRes) =>
               \A n \in 1..Len(parseRes.val) :
                   parseRes.val[n].error # "UnexpectedBlankLine"
        /\ \A i \in 1..Len(file) :
               (file[i].ok /\ is_rule_line(file[i].text)) =>
                   (lex_line(file[i].text).ok =>
                        Len(lex_line(file[i].text).val) >= 1)

----------------------------------------------------------------------------
(* Cycles of nonterminal references and the termination of generate *)

\* No nonterminal reachable from start refers, directly or indirectly, to
\* itself.
Acyclic(rules, start) ==
    \A n \in Reachable(rules, {start}) :
        n \notin Reachable(rules, Referenced(rules, {n}))

\* The largest subset of names in which every rewrite has an alternative and
\* every alternative of every rewrite refers to a name of the subset: the
\* cycles with no terminating alternative.
RECURSIVE Inescapable(_, _)
Inescapable(rules, names) ==
    LET keep == {n \in names :
                    /\ Len(rules[n].rewrite) >= 1
                    /\ \A i \in 1..Len(rules[n].rewrite) :
                           \E j \in 1..Len(rules[n].rewrite[i]) :
                               /\ rules[n].rewrite[i][j].kind = "Nonterminal"
                               /\ rules[n].rewrite[i][j].text \in names}
    IN IF keep = names THEN names ELSE Inescapable(rules, keep)

NoTerminatingAlternative(rules) == Inescapable(rules, DOMAIN rules)

\* Every error generate returns names a nonterminal that has no rule.
OnlyUndefinedNonterminalErrors ==
    \A n \in 1..Len(outputs) :
        IsErr(outputs[n].res) =>
            /\ outputs[n].res.err.error.type = "UndefinedNonterminal"
            /\ outputs[n].res.err.error.name \notin DOMAIN grammar.rules

AcyclicCall(call) ==
    /\ Verified(grammar)
    /\ call.start \in DOMAIN grammar.rules
    /\ Acyclic(grammar.rules, call.start)

\* A call on a verified grammar from a start symbol inside a set of names all
\* of whose alternatives refer to a name of the set.
InescapableCall(call) ==
    /\ Verified(grammar)
    /\ call.start \in NoTerminatingAlternative(grammar.rules)

============================================================================
